---- MODULE Spec2Model ----
(***************************************************************************)
(* libMiniELF: the ELF64 decoder minielf::MiniELF (src/src/MiniELF.cpp,    *)
(* lines 1-453, with include/minielf/MiniELF.hpp).  One object is built    *)
(* from one file: the constructor runs parse(), then the object answers    *)
(* queries; the first lookup query builds the lookup index.                *)
(*                                                                         *)
(* Pointers into _symbols / _sections are modelled as 1-based positions,   *)
(* nullptr as NotFound.  Strings are sequences of characters; the null     *)
(* byte is NUL.  File offsets and sizes are in bytes.                      *)
(***************************************************************************)
EXTENDS Integers, Sequences, FiniteSets, TLC

\* ------------------------------------------------------------------ bounds
\* Longest list of symbol records / of freely chosen sections in an input file.
MaxSyms == 2
MaxSecs == 2
\* Query addresses are 0..MaxAddr and the two highest addresses.
MaxAddr == 6
\* Width of an address (uint64_t in the source, scaled down).
AddrBits == 10

AddrSpace == 2 ^ AddrBits
\* Longest string table the name resolution is applied to on its own.
MaxBlob == 3

\* ------------------------------------------------------- program constants
EhdrSize == 64
ShdrSize == 64
PhdrSize == 56
SymSize == 24
SHT_SYMTAB == 2
SHT_STRTAB == 3
SHT_DYNSYM == 11
ELFCLASS64 == 2

NUL == "NUL"
NotFound == 0

\* The messages of setError; the one for open is followed by the file path.
ErrOpen == "MiniELF error: failed to open file: "
ErrHeader == "MiniELF error: failed to read ELF header"
ErrMagic == "MiniELF error: not an ELF file"
ErrClass == "MiniELF error: ELF32 not supported yet"
ErrNoSections == "MiniELF error: no section headers"
ErrSectionHeader == "MiniELF error: failed to read section header"
ErrShstrtab == "MiniELF error: failed to read section string table"
ErrProgramHeader == "MiniELF error: failed to read program header"

\* ParseStage, in declaration order.
StageHeader == "Header"
StageSectionHeaders == "SectionHeaders"
StageSymbols == "Symbols"
StageProgramHeaders == "ProgramHeaders"

\* ----------------------------------------------------------------- helpers
Min(a, b) == IF a <= b THEN a ELSE b

\* Arithmetic of unbounded integers, where a sum does not wrap.
Wrap_None(x) == x

\* uint64_t arithmetic: a sum wraps around at the width of an address.
Wrap(x) == x % AddrSpace

\* Value-initialised records (Elf64_Ehdr{}, Elf64_Shdr{}, Elf64_Sym{}, Elf64_Phdr{}).
ZeroEhdr ==
    [magic |-> FALSE, class |-> 0, e_type |-> 0, e_machine |-> 0, e_version |-> 0,
     e_entry |-> 0, e_flags |-> 0, e_phoff |-> 0, e_shoff |-> 0, e_phnum |-> 0,
     e_shnum |-> 0, e_shstrndx |-> 0]

ZeroShdr ==
    [sh_name |-> 0, sh_type |-> 0, sh_addr |-> 0, sh_offset |-> 0, sh_size |-> 0,
     sh_link |-> 0, sh_entsize |-> 0]

ZeroSym == [st_name |-> 0, st_info |-> 0, st_value |-> 0, st_size |-> 0]

ZeroPhdr == [p_type |-> 0]

ZeroMeta == [type |-> 0, machine |-> 0, version |-> 0, entry |-> 0, flags |-> 0]

\* The byte at index p (0-based) of a buffer.  The code as written reads no
\* index outside the buffer; what lies there is some byte that is not known.
ByteAt(buf, p) == IF p < Len(buf) THEN buf[p + 1] ELSE "?"

\* memchr(&buf[from], '\0', maxLen): the indices read, in order from from on,
\* and the index of the first null byte among them (-1 when there is none).
RECURSIVE MemChr(_, _, _)
MemChr(buf, from, maxLen) ==
    IF maxLen <= 0 THEN [end |-> -1, read |-> {}]
    ELSE IF ByteAt(buf, from) = NUL THEN [end |-> from, read |-> {from}]
    ELSE LET rest == MemChr(buf, from + 1, maxLen - 1)
         IN  [end |-> rest.end, read |-> {from} \cup rest.read]

\* size_t maxLen = strtab.size() - off, the bytes memchr may look at.
MaxLen_WholeTable(size, off) == size

MaxLen(size, off) == size - off

\* The name-resolution block for the name at offset off of a string table:
\* the name, and the indices of the table it read.
NameScan(strtab, off) ==
    IF Len(strtab) # 0 /\ off < Len(strtab)
    THEN LET m == MemChr(strtab, off, MaxLen(Len(strtab), off))
         IN  [name |-> IF m.end # -1
                       THEN [j \in 1..(m.end - off) |-> ByteAt(strtab, off + j - 1)]
                       ELSE << >>,
              read |-> m.read]
    ELSE [name |-> << >>, read |-> {}]

\* The name at offset off of a string table: the characters up to the first
\* null byte at or after off; empty when the table is empty, off is out of
\* range or no null byte follows.
ResolveName(strtab, off) == NameScan(strtab, off).name

\* ----------------------------------------------------------- the input file
\* A file is [exists, len, ehdr, shdrs, phdrs, at]: whether it can be opened,
\* its length, the header at offset 0, the section headers stored at e_shoff,
\* the program headers stored at e_phoff, and at[off], the content that starts
\* at offset off (characters of a string table, records of a symbol table).

\* Bytes a read of n bytes at offset off obtains from a file of length len.
Avail(len, off, n) == IF off >= len THEN 0 ELSE Min(n, len - off)

ContentAt(f, off) == IF off \in DOMAIN f.at THEN f.at[off] ELSE << >>

IsSymType(t) == t = SHT_SYMTAB \/ t = SHT_DYNSYM

\* Bytes the content of a described section occupies in the file.
BlobBytes(d) ==
    IF IsSymType(d.sh_type) THEN SymSize * Len(d.content)
    ELSE IF d.sh_type = SHT_STRTAB THEN Len(d.content)
    ELSE 0

RECURSIVE SumBlobBytes(_, _, _)
SumBlobBytes(ds, n, skip) ==
    IF n = 0 THEN 0
    ELSE SumBlobBytes(ds, n - 1, skip) + (IF n = skip THEN 0 ELSE BlobBytes(ds[n]))

\* The well-formed file of the described sections ds (section-name string
\* table at index strndx, 0-based) with nph program headers.  Layout: header,
\* section headers, program headers, the section-name string table, then the
\* other contents in section order.
MkFile(ds, strndx, nph) ==
    LET n == Len(ds)
        phoff == EhdrSize + ShdrSize * n
        data == phoff + PhdrSize * nph
        first == IF strndx < n THEN BlobBytes(ds[strndx + 1]) ELSE 0
        off(i) == IF BlobBytes(ds[i]) = 0 THEN 0
                  ELSE IF i = strndx + 1 THEN data
                  ELSE data + first + SumBlobBytes(ds, i - 1, strndx + 1)
        size(i) == IF BlobBytes(ds[i]) = 0 /\ ds[i].sh_type # SHT_STRTAB
                      /\ ~IsSymType(ds[i].sh_type)
                   THEN ds[i].sh_size ELSE BlobBytes(ds[i])
        blobs == {i \in 1..n : BlobBytes(ds[i]) > 0}
    IN  [exists |-> TRUE,
         len |-> data + SumBlobBytes(ds, n, 0),
         ehdr |-> [magic |-> TRUE, class |-> ELFCLASS64, e_type |-> 2, e_machine |-> 62,
                   e_version |-> 1, e_entry |-> 4, e_flags |-> 0,
                   e_phoff |-> IF nph > 0 THEN phoff ELSE 0,
                   e_shoff |-> EhdrSize, e_phnum |-> nph, e_shnum |-> n,
                   e_shstrndx |-> strndx],
         shdrs |-> [i \in 1..n |->
                      [sh_name |-> ds[i].sh_name, sh_type |-> ds[i].sh_type,
                       sh_addr |-> ds[i].sh_addr, sh_offset |-> off(i),
                       sh_size |-> size(i), sh_link |-> ds[i].sh_link,
                       sh_entsize |-> ds[i].sh_entsize]],
         phdrs |-> [j \in 1..nph |-> [p_type |-> 1]],
         at |-> [o \in {off(i) : i \in blobs} |->
                   ds[CHOOSE i \in blobs : off(i) = o].content]]

\* ------------------------------------------------------------ input families
\* One string table serves as section-name table and as symbol string table:
\* offset 1 names "a", offset 3 names "b", offsets 0, 2 and 4 the empty name.
NameBlob == <<NUL, "a", NUL, "b", NUL>>

Desc(name, type, addr, size, link, entsize, content) ==
    [sh_name |-> name, sh_type |-> type, sh_addr |-> addr, sh_size |-> size,
     sh_link |-> link, sh_entsize |-> entsize, content |-> content]

ShstrDesc == Desc(0, SHT_STRTAB, 512, 0, 0, 0, NameBlob)
StrDesc == Desc(2, SHT_STRTAB, 528, 0, 0, 0, NameBlob)
SymDesc(type, link, entsize, syms) == Desc(4, type, 544, 0, link, entsize, syms)

\* Sections without file content (type 1): large at 0, nested, adjacent,
\* empty, empty-named, and one whose end passes the highest address.
SecChoices ==
    { Desc(1, 1, 0, 6, 0, 0, << >>), Desc(3, 1, 2, 2, 0, 0, << >>),
      Desc(1, 1, 4, 2, 0, 0, << >>), Desc(3, 1, 0, 0, 0, 0, << >>),
      Desc(0, 1, 4, 0, 0, 0, << >>), Desc(3, 1, AddrSpace - 2, 4, 0, 0, << >>) }

Sym(name, info, value, size) ==
    [st_name |-> name, st_info |-> info, st_value |-> value, st_size |-> size]

SymChoices ==
    { Sym(1, 2, 0, 4), Sym(3, 1, 2, 1), Sym(1, 18, 4, 2), Sym(3, 0, 4, 0),
      Sym(0, 3, 6, 1), Sym(9, 10, 1, 0), Sym(3, 2, AddrSpace - 1, 2) }

SeqsUpTo(S, n) == UNION {[1..k -> S] : k \in 0..n}

\* Well-formed files that differ in their symbols.
SymbolFiles ==
    { MkFile(<<SymDesc(SHT_SYMTAB, 1, SymSize, syms), StrDesc, ShstrDesc>>, 2, 0) :
        syms \in SeqsUpTo(SymChoices, MaxSyms) }

\* Well-formed files that differ in their sections.
SectionFiles ==
    { MkFile(secs \o <<ShstrDesc>>, Len(secs), 0) : secs \in SeqsUpTo(SecChoices, MaxSecs) }

TwoSyms == <<Sym(1, 2, 0, 4), Sym(3, 1, 4, 2)>>
OneSec == Desc(1, 1, 0, 6, 0, 0, << >>)

\* Files that differ in which tables they hold, in what order, and in the
\* header's indices and entry sizes.
LayoutFiles ==
    { MkFile(<<OneSec, SymDesc(SHT_SYMTAB, 2, SymSize, TwoSyms), StrDesc, ShstrDesc>>, 3, 2),
      MkFile(<<OneSec, StrDesc, SymDesc(SHT_SYMTAB, 1, SymSize, TwoSyms), ShstrDesc>>, 3, 2),
      MkFile(<<SymDesc(SHT_SYMTAB, 1, SymSize, TwoSyms), StrDesc, ShstrDesc>>, 2, 0),
      MkFile(<<SymDesc(SHT_DYNSYM, 1, SymSize, TwoSyms), StrDesc, ShstrDesc>>, 2, 1),
      MkFile(<<StrDesc, SymDesc(SHT_DYNSYM, 0, SymSize, TwoSyms), ShstrDesc>>, 2, 0),
      MkFile(<<OneSec, SymDesc(SHT_DYNSYM, 2, SymSize, TwoSyms), ShstrDesc>>, 2, 0),
      MkFile(<<SymDesc(SHT_SYMTAB, 1, SymSize, TwoSyms), ShstrDesc>>, 1, 1),
      MkFile(<<OneSec, ShstrDesc>>, 1, 2),
      MkFile(<<SymDesc(SHT_SYMTAB, 1, 0, TwoSyms), StrDesc, ShstrDesc>>, 2, 0),
      MkFile(<<SymDesc(SHT_SYMTAB, 1, 2 * SymSize, TwoSyms), StrDesc, ShstrDesc>>, 2, 0),
      MkFile(<<OneSec, ShstrDesc>>, 2, 0) }

\* Lengths at which a file is cut: inside the header, at every section and
\* program header, at every record of a symbol table, inside every string table.
CutPoints(f) ==
    {0, EhdrSize - 1, f.len}
      \cup {EhdrSize + ShdrSize * j : j \in 0..Len(f.shdrs)}
      \cup {EhdrSize + ShdrSize * Len(f.shdrs) + PhdrSize * j : j \in 0..Len(f.phdrs)}
      \cup UNION {{o, o + 2} \cup {o + SymSize * j : j \in 1..MaxSyms} : o \in DOMAIN f.at}

TruncatedFiles ==
    UNION { { [f EXCEPT !.len = c] : c \in {x \in CutPoints(f) : x <= f.len} } :
            f \in LayoutFiles }

\* Files whose header is unreadable or rejected, faults combined.
HeaderFiles ==
    LET f == MkFile(<<OneSec, ShstrDesc>>, 1, 0)
    IN  { [f EXCEPT !.exists = ex, !.len = n, !.ehdr.magic = mg, !.ehdr.class = cl,
                    !.ehdr.e_shoff = so, !.ehdr.e_shnum = sn] :
            ex \in BOOLEAN, n \in {0, EhdrSize - 1, f.len}, mg \in BOOLEAN,
            cl \in {1, ELFCLASS64}, so \in {0, f.ehdr.e_shoff}, sn \in {0, f.ehdr.e_shnum} }

\* The file f with its program-header table moved behind all contents, to
\* the end of the file.
PhdrsLast(f) ==
    LET sz == PhdrSize * Len(f.phdrs)
        mv(o) == IF o = 0 THEN 0 ELSE o - sz
    IN  [f EXCEPT !.ehdr.e_phoff = f.len - sz,
                  !.shdrs = [i \in DOMAIN f.shdrs |->
                                [f.shdrs[i] EXCEPT !.sh_offset = mv(@)]],
                  !.at = [o \in {mv(x) : x \in DOMAIN f.at} |-> f.at[o + sz]]]

\* Files whose program-header table comes last, whole or cut short: all
\* section and symbol data is present, the program headers are not.
PhdrTailFiles ==
    LET f == PhdrsLast(MkFile(<<OneSec, SymDesc(SHT_SYMTAB, 2, SymSize, TwoSyms),
                                StrDesc, ShstrDesc>>, 3, 2))
    IN  { [f EXCEPT !.len = f.len - c] :
            c \in {0, 1, PhdrSize, PhdrSize + 1, 2 * PhdrSize} }

\* Files with two adjacent sections [0,4) and [4,6), alone or with a third
\* section: empty inside the first, empty at the boundary, or adjacent to the
\* second; in both on-disk orders of the two.
AdjacentFiles ==
    LET A == Desc(1, 1, 0, 4, 0, 0, << >>)
        B == Desc(3, 1, 4, 2, 0, 0, << >>)
        thirds == { << >>, <<Desc(0, 1, 2, 0, 0, 0, << >>)>>,
                    <<Desc(0, 1, 4, 0, 0, 0, << >>)>>, <<Desc(1, 1, 6, 1, 0, 0, << >>)>> }
    IN  { MkFile(ab \o z \o <<ShstrDesc>>, 2 + Len(z), 0) :
            ab \in {<<A, B>>, <<B, A>>}, z \in thirds }

\* Files with several static symbol tables, several string tables besides the
\* section-name table, or both; the tables differ in content, sh_link points
\* at one string table or the other, and the section-name table is last,
\* in the middle or first.
MultiTableFiles ==
    LET S1(link) == SymDesc(SHT_SYMTAB, link, SymSize, TwoSyms)
        S2(link) == SymDesc(SHT_SYMTAB, link, SymSize, <<Sym(3, 2, 6, 1)>>)
        T1 == StrDesc
        T2 == Desc(2, SHT_STRTAB, 560, 0, 0, 0, <<NUL, "b", NUL, "a", NUL>>)
    IN  { MkFile(<<S1(2), S2(2), T1, ShstrDesc>>, 3, 0),
          MkFile(<<S1(1), T1, T2, ShstrDesc>>, 3, 0),
          MkFile(<<S1(2), T1, T2, ShstrDesc>>, 3, 0),
          MkFile(<<S1(1), T1, ShstrDesc, T2>>, 2, 0),
          MkFile(<<T2, S2(0), ShstrDesc, S1(0), T1>>, 2, 0),
          MkFile(<<ShstrDesc, T1, S1(1), S2(4), T2>>, 0, 0) }

\* Files without a static symbol table and with dynamic symbol tables: the
\* linked string table after or before the symbol table, a second string
\* table that is not linked, a link to a section that is no string table,
\* two dynamic symbol tables, and a static table next to a dynamic one.
DynamicFiles ==
    LET D1(link) == SymDesc(SHT_DYNSYM, link, SymSize, TwoSyms)
        D2(link) == SymDesc(SHT_DYNSYM, link, SymSize, <<Sym(3, 2, 6, 1)>>)
        T1 == StrDesc
        T2 == Desc(2, SHT_STRTAB, 560, 0, 0, 0, <<NUL, "b", NUL, "a", NUL>>)
    IN  { MkFile(<<D1(1), T1, T2, ShstrDesc>>, 3, 0),
          MkFile(<<OneSec, T1, D1(1), T2, ShstrDesc>>, 4, 0),
          MkFile(<<D1(0), T1, ShstrDesc>>, 2, 0),
          MkFile(<<D1(2), T1, ShstrDesc>>, 2, 0),
          MkFile(<<D1(2), D2(2), T1, ShstrDesc>>, 3, 0),
          MkFile(<<D2(2), SymDesc(SHT_SYMTAB, 2, SymSize, TwoSyms), T1, ShstrDesc>>, 3, 0) }

Files ==
    SymbolFiles \cup SectionFiles \cup TruncatedFiles \cup HeaderFiles \cup PhdrTailFiles
      \cup AdjacentFiles \cup MultiTableFiles \cup DynamicFiles

\* ------------------------------------------------------------------- state
VARIABLES
    file,                     \* the file at _filepath
    pc,                       \* position in the constructor, then "ready"
    _unsafeAccessEnabled, _valid, _sections, _symbols, _elfHeader,
    _sectionHeaders, _programHeaders, _sectionStringTableRaw, _lastError,
    _failureStage,
    _symbolByName, _symbolsSortedByAddr, _sectionsSortedByAddr, _sectionByName,
    _lookupBuilt,
    ehdr, shdrs, shstr,       \* locals of parse()
    streamFail,               \* failbit of parse()'s std::ifstream
    reads,                    \* the reads parse() issued: what, bytes wanted, bytes got
    thr,                      \* per caller thread: position in a query, its argument and result
    ret                       \* the last call of a public method: op, arg, val

parsedVars == <<_valid, _sections, _symbols, _elfHeader, _sectionHeaders,
                _programHeaders, _sectionStringTableRaw, _lastError, _failureStage>>
lookupVars == <<_symbolByName, _symbolsSortedByAddr, _sectionsSortedByAddr,
                _sectionByName, _lookupBuilt>>
localVars == <<ehdr, shdrs, shstr, streamFail>>
vars == <<file, pc, _unsafeAccessEnabled, parsedVars, lookupVars, localVars, reads, thr, ret>>

\* The threads that call into one object, and a thread that is in no call.
Threads == {1, 2}
Idle == [pc |-> "idle", name |-> << >>, val |-> NotFound]

NoCall == [op |-> "none", arg |-> 0, val |-> 0]

Init ==
    /\ file \in Files
    /\ pc = "open"
    /\ _unsafeAccessEnabled = FALSE
    /\ _valid = FALSE
    /\ _sections = << >>
    /\ _symbols = << >>
    /\ _elfHeader = ZeroEhdr
    /\ _sectionHeaders = << >>
    /\ _programHeaders = << >>
    /\ _sectionStringTableRaw = << >>
    /\ _lastError = ""
    /\ _failureStage = StageHeader
    /\ _symbolByName = << >>
    /\ _symbolsSortedByAddr = << >>
    /\ _sectionsSortedByAddr = << >>
    /\ _sectionByName = << >>
    /\ _lookupBuilt = FALSE
    /\ ehdr = ZeroEhdr
    /\ shdrs = << >>
    /\ shstr = << >>
    /\ streamFail = FALSE
    /\ reads = {}
    /\ thr = [t \in Threads |-> Idle]
    /\ ret = NoCall

\* ------------------------------------------------------------ std::ifstream
\* file.seekg(off) then file.read(buf, n): once failbit is set the seek does
\* nothing and the read obtains no byte; a read that obtains fewer than n
\* bytes sets failbit.
StreamRead(fail, len, off, n) ==
    LET got == IF fail THEN 0 ELSE Avail(len, off, n)
    IN  [got |-> got, fail |-> fail \/ got < n]

\* file.gcount() != <the bytes asked for>, the test after each checked read.
ShortRead_GcountZero(r, want) == want > 0 /\ r.got = 0

ShortRead(r, want) == r.got # want

\* A std::vector<char> of n null bytes over which got bytes of content were read.
CharBuffer(content, n, got) ==
    [j \in 1..n |-> IF j <= got /\ j <= Len(content) THEN content[j] ELSE NUL]

\* The record buffer filled from its last element down.
SymBuffer_Reversed(content, num, got) ==
    [j \in 1..num |-> IF SymSize * (num + 1 - j) <= got /\ num + 1 - j <= Len(content)
                      THEN content[num + 1 - j] ELSE ZeroSym]

\* A std::vector<Elf64_Sym> of num zero records over which got bytes were read.
SymBuffer(content, num, got) ==
    [j \in 1..num |-> IF SymSize * j <= got /\ j <= Len(content) THEN content[j]
                      ELSE ZeroSym]

\* ------------------------------------------------------------------ parse()
\* The header checks, in source order; "" when the header is accepted.
HeaderCheck_ClassFirst(eh) ==
    IF eh.class # ELFCLASS64 THEN ErrClass
    ELSE IF ~eh.magic THEN ErrMagic
    ELSE IF eh.e_shoff = 0 \/ eh.e_shnum = 0 THEN ErrNoSections
    ELSE ""

HeaderCheck(eh) ==
    IF ~eh.magic THEN ErrMagic
    ELSE IF eh.class # ELFCLASS64 THEN ErrClass
    ELSE IF eh.e_shoff = 0 \/ eh.e_shnum = 0 THEN ErrNoSections
    ELSE ""

\* void setError(const std::string& msg) { _lastError = msg; }
setError_Dropped(msg) == UNCHANGED _lastError

setError(msg) == _lastError' = msg

\* _failureStage = ParseStage::<stage>, the assignment that opens a stage.
EnterStage_Skip(stage) == UNCHANGED _failureStage

EnterStage(stage) == _failureStage' = stage

ParseOpen ==
    /\ pc = "open"
    /\ EnterStage(StageHeader)
    /\ IF ~file.exists
       THEN /\ setError(ErrOpen)
            /\ pc' = "ctor"
       ELSE /\ pc' = "readHeader"
            /\ UNCHANGED _lastError
    /\ UNCHANGED <<file, thr, _unsafeAccessEnabled, _valid, _sections, _symbols, _elfHeader,
                   _sectionHeaders, _programHeaders, _sectionStringTableRaw,
                   lookupVars, localVars, reads, ret>>

ParseReadHeader ==
    /\ pc = "readHeader"
    /\ LET r == StreamRead(FALSE, file.len, 0, EhdrSize)
       IN  /\ reads' = reads \cup {[what |-> "ehdr", want |-> EhdrSize, got |-> r.got]}
           /\ IF ShortRead(r, EhdrSize)
              THEN /\ setError(ErrHeader)
                   /\ pc' = "ctor"
                   /\ UNCHANGED ehdr
              ELSE /\ ehdr' = file.ehdr
                   /\ pc' = "checkHeader"
                   /\ UNCHANGED _lastError
    /\ UNCHANGED <<file, thr, _unsafeAccessEnabled, _valid, _sections, _symbols, _elfHeader,
                   _sectionHeaders, _programHeaders, _sectionStringTableRaw,
                   _failureStage, lookupVars, shdrs, shstr, streamFail, ret>>

ParseCheckHeader ==
    /\ pc = "checkHeader"
    /\ IF HeaderCheck(ehdr) # ""
       THEN /\ setError(HeaderCheck(ehdr))
            /\ pc' = "ctor"
       ELSE /\ pc' = "sectionHeaders"
            /\ UNCHANGED _lastError
    /\ UNCHANGED <<file, thr, _unsafeAccessEnabled, _valid, _sections, _symbols, _elfHeader,
                   _sectionHeaders, _programHeaders, _sectionStringTableRaw,
                   _failureStage, lookupVars, localVars, reads, ret>>

\* The loop over shdrs reads header after header and returns at the first
\* short read.
ParseSectionHeaders ==
    /\ pc = "sectionHeaders"
    /\ EnterStage(StageSectionHeaders)
    /\ LET n == ehdr.e_shnum
           r == StreamRead(FALSE, file.len, ehdr.e_shoff, ShdrSize * n)
       IN  /\ reads' = reads \cup {[what |-> "shdrs", want |-> ShdrSize * n, got |-> r.got]}
           /\ IF ShortRead(r, ShdrSize * n)
              THEN /\ setError(ErrSectionHeader)
                   /\ pc' = "ctor"
                   /\ UNCHANGED shdrs
              ELSE /\ shdrs' = [i \in 1..n |-> IF i <= Len(file.shdrs) THEN file.shdrs[i]
                                               ELSE ZeroShdr]
                   /\ pc' = "shstrtab"
                   /\ UNCHANGED _lastError
    /\ UNCHANGED <<file, thr, _unsafeAccessEnabled, _valid, _sections, _symbols, _elfHeader,
                   _sectionHeaders, _programHeaders, _sectionStringTableRaw,
                   lookupVars, ehdr, shstr, streamFail, ret>>

\* shdrs[ehdr.e_shstrndx]: inside the vector it is that header; outside it the
\* access is undefined: the process dies, or the bytes found there describe an
\* empty table or one that lies outside the file.
ShstrtabHeaders ==
    IF ehdr.e_shstrndx < Len(shdrs) THEN {shdrs[ehdr.e_shstrndx + 1]}
    ELSE {ZeroShdr, [ZeroShdr EXCEPT !.sh_offset = file.len, !.sh_size = 1]}

ParseShstrtab ==
    /\ pc = "shstrtab"
    /\ \/ /\ ehdr.e_shstrndx >= Len(shdrs)
          /\ pc' = "crashed"
          /\ UNCHANGED <<_lastError, shstr, reads>>
       \/ \E h \in ShstrtabHeaders :
            LET r == StreamRead(FALSE, file.len, h.sh_offset, h.sh_size)
            IN  /\ reads' = reads \cup
                        {[what |-> "shstrtab", want |-> h.sh_size, got |-> r.got]}
                /\ IF ShortRead(r, h.sh_size)
                   THEN /\ setError(ErrShstrtab)
                        /\ pc' = "ctor"
                        /\ UNCHANGED shstr
                   ELSE /\ shstr' = CharBuffer(ContentAt(file, h.sh_offset), h.sh_size, r.got)
                        /\ pc' = "populate"
                        /\ UNCHANGED _lastError
    /\ UNCHANGED <<file, thr, _unsafeAccessEnabled, _valid, _sections, _symbols, _elfHeader,
                   _sectionHeaders, _programHeaders, _sectionStringTableRaw,
                   _failureStage, lookupVars, ehdr, shdrs, streamFail, ret>>

BuildSection(sh, names) ==
    [name |-> ResolveName(names, sh.sh_name), address |-> sh.sh_addr, size |-> sh.sh_size]

ParsePopulateSections ==
    /\ pc = "populate"
    /\ _sectionHeaders' = shdrs
    /\ _sectionStringTableRaw' = shstr
    /\ _elfHeader' = ehdr
    /\ _sections' = [i \in 1..Len(shdrs) |-> BuildSection(shdrs[i], shstr)]
    /\ pc' = "symbols"
    /\ UNCHANGED <<file, thr, _unsafeAccessEnabled, _valid, _symbols, _programHeaders,
                   _lastError, _failureStage, lookupVars, localVars, reads, ret>>

\* ------------------------------------------------------------ parseSymbols()
NoSource ==
    [symtab_hdr |-> ZeroShdr, strtab_hdr |-> ZeroShdr,
     found_symtab |-> FALSE, found_strtab |-> FALSE]

\* The first loop as it would be with a break at the first header of each kind.
RECURSIVE PrimaryScan_KeepFirst(_, _, _, _)
PrimaryScan_KeepFirst(hs, strndx, i, acc) ==
    IF i >= Len(hs) THEN acc
    ELSE LET sh == hs[i + 1]
         IN  PrimaryScan_KeepFirst(hs, strndx, i + 1,
                IF sh.sh_type = SHT_SYMTAB
                THEN (IF acc.found_symtab THEN acc
                      ELSE [acc EXCEPT !.symtab_hdr = sh, !.found_symtab = TRUE])
                ELSE IF sh.sh_type = SHT_STRTAB /\ i # strndx
                THEN (IF acc.found_strtab THEN acc
                      ELSE [acc EXCEPT !.strtab_hdr = sh, !.found_strtab = TRUE])
                ELSE acc)

\* The first loop, from index i (0-based) on: every SHT_SYMTAB header and
\* every SHT_STRTAB header other than e_shstrndx overwrites the one kept.
RECURSIVE PrimaryScan(_, _, _, _)
PrimaryScan(hs, strndx, i, acc) ==
    IF i >= Len(hs) THEN acc
    ELSE LET sh == hs[i + 1]
         IN  PrimaryScan(hs, strndx, i + 1,
                IF sh.sh_type = SHT_SYMTAB
                THEN [acc EXCEPT !.symtab_hdr = sh, !.found_symtab = TRUE]
                ELSE IF sh.sh_type = SHT_STRTAB /\ i # strndx
                THEN [acc EXCEPT !.strtab_hdr = sh, !.found_strtab = TRUE]
                ELSE acc)

\* The second loop: SHT_DYNSYM headers, and SHT_STRTAB headers whose index is
\* the sh_link of the symbol table header kept so far.
RECURSIVE FallbackScan(_, _, _, _)
FallbackScan(hs, strndx, i, acc) ==
    IF i >= Len(hs) THEN acc
    ELSE LET sh == hs[i + 1]
         IN  FallbackScan(hs, strndx, i + 1,
                IF sh.sh_type = SHT_DYNSYM
                THEN [acc EXCEPT !.symtab_hdr = sh, !.found_symtab = TRUE]
                ELSE IF sh.sh_type = SHT_STRTAB /\ i # strndx /\ acc.symtab_hdr.sh_link = i
                THEN [acc EXCEPT !.strtab_hdr = sh, !.found_strtab = TRUE]
                ELSE acc)

SelectSymbolSource(hs, strndx) ==
    LET a == PrimaryScan(hs, strndx, 0, NoSource)
    IN  IF ~a.found_symtab THEN FallbackScan(hs, strndx, 0, a) ELSE a

BuildSymbol(raw, strtab) ==
    [name |-> ResolveName(strtab, raw.st_name), address |-> raw.st_value,
     size |-> raw.st_size, type |-> raw.st_info % 16]

\* Neither read of parseSymbols is checked.  sh_entsize = 0 divides by zero
\* (the process dies); a read that obtains more bytes than the record vector
\* holds writes past it (the process dies, or goes on).
ParseSymbols ==
    /\ pc = "symbols"
    /\ EnterStage(StageSymbols)
    /\ LET sel == SelectSymbolSource(shdrs, ehdr.e_shstrndx)
           st == sel.symtab_hdr
           sr == sel.strtab_hdr
       IN  IF ~sel.found_symtab \/ ~sel.found_strtab
           THEN /\ pc' = "programHeaders"
                /\ UNCHANGED <<_symbols, streamFail, reads>>
           ELSE IF st.sh_entsize = 0
           THEN /\ pc' = "crashed"
                /\ UNCHANGED <<_symbols, streamFail, reads>>
           ELSE LET num == st.sh_size \div st.sh_entsize
                    r1 == StreamRead(streamFail, file.len, st.sh_offset, st.sh_size)
                    r2 == StreamRead(r1.fail, file.len, sr.sh_offset, sr.sh_size)
                    raw == SymBuffer(ContentAt(file, st.sh_offset), num, r1.got)
                    strtab == CharBuffer(ContentAt(file, sr.sh_offset), sr.sh_size, r2.got)
                IN  \E dies \in IF r1.got > SymSize * num THEN BOOLEAN ELSE {FALSE} :
                      IF dies
                      THEN /\ pc' = "crashed"
                           /\ UNCHANGED <<_symbols, streamFail, reads>>
                      ELSE /\ _symbols' = [j \in 1..num |-> BuildSymbol(raw[j], strtab)]
                           /\ streamFail' = r2.fail
                           /\ reads' = reads \cup
                                {[what |-> "symtab", want |-> st.sh_size, got |-> r1.got],
                                 [what |-> "strtab", want |-> sr.sh_size, got |-> r2.got]}
                           /\ pc' = "programHeaders"
    /\ UNCHANGED <<file, thr, _unsafeAccessEnabled, _valid, _sections, _elfHeader,
                   _sectionHeaders, _programHeaders, _sectionStringTableRaw,
                   _lastError, lookupVars, ehdr, shdrs, shstr, ret>>

\* The program headers are read into _programHeaders itself, resized first.
ParseProgramHeaders ==
    /\ pc = "programHeaders"
    /\ IF ehdr.e_phoff # 0 /\ ehdr.e_phnum > 0
       THEN LET n == ehdr.e_phnum
                r == StreamRead(streamFail, file.len, ehdr.e_phoff, PhdrSize * n)
                k == r.got \div PhdrSize
            IN  /\ EnterStage(StageProgramHeaders)
                /\ _programHeaders' =
                       [j \in 1..n |-> IF j <= k /\ j <= Len(file.phdrs) THEN file.phdrs[j]
                                       ELSE ZeroPhdr]
                /\ reads' = reads \cup
                       {[what |-> "phdrs", want |-> PhdrSize * n, got |-> r.got]}
                /\ streamFail' = r.fail
                /\ IF ShortRead(r, PhdrSize * n)
                   THEN /\ setError(ErrProgramHeader)
                        /\ pc' = "ctor"
                   ELSE /\ pc' = "setValid"
                        /\ UNCHANGED _lastError
       ELSE /\ pc' = "setValid"
            /\ UNCHANGED <<_failureStage, _programHeaders, reads, streamFail, _lastError>>
    /\ UNCHANGED <<file, thr, _unsafeAccessEnabled, _valid, _sections, _symbols, _elfHeader,
                   _sectionHeaders, _sectionStringTableRaw, lookupVars, ehdr, shdrs,
                   shstr, ret>>

\* The end of parse() as it would be if success put the stage back to Header.
ParseSetValid_ResetStage ==
    /\ pc = "setValid"
    /\ _valid' = TRUE
    /\ _failureStage' = StageHeader
    /\ pc' = "ctor"
    /\ UNCHANGED <<file, thr, _unsafeAccessEnabled, _sections, _symbols, _elfHeader,
                   _sectionHeaders, _programHeaders, _sectionStringTableRaw,
                   _lastError, lookupVars, localVars, reads, ret>>

ParseSetValid ==
    /\ pc = "setValid"
    /\ _valid' = TRUE
    /\ pc' = "ctor"
    /\ UNCHANGED <<file, thr, _unsafeAccessEnabled, _sections, _symbols, _elfHeader,
                   _sectionHeaders, _programHeaders, _sectionStringTableRaw,
                   _lastError, _failureStage, lookupVars, localVars, reads, ret>>

\* The rest of the constructor; parse()'s locals are gone.
Construct ==
    /\ pc = "ctor"
    /\ _symbolsSortedByAddr' = [i \in 1..Len(_symbols) |-> i]
    /\ _sectionsSortedByAddr' = [i \in 1..Len(_sections) |-> i]
    /\ _lookupBuilt' = FALSE
    /\ ehdr' = ZeroEhdr
    /\ shdrs' = << >>
    /\ shstr' = << >>
    /\ streamFail' = FALSE
    /\ pc' = "ready"
    /\ UNCHANGED <<file, thr, _unsafeAccessEnabled, parsedVars, _symbolByName,
                   _sectionByName, reads, ret>>

\* ------------------------------------------------------------ buildLookups()
\* m[k] = v of a std::unordered_map: a later assignment replaces an earlier one.
MapPut_KeepFirst(m, k, v) == [x \in DOMAIN m \cup {k} |-> IF x \in DOMAIN m THEN m[x] ELSE v]

MapPut(m, k, v) == [x \in DOMAIN m \cup {k} |-> IF x = k THEN v ELSE m[x]]

\* The loops with the test for an empty name left out of both.
RECURSIVE FillByName_NoSkip(_, _, _, _)
FillByName_NoSkip(items, i, skipEmpty, m) ==
    IF i > Len(items) THEN m
    ELSE FillByName_NoSkip(items, i + 1, skipEmpty, MapPut(m, items[i].name, i))

\* The loops over _symbols (names that are empty skipped) and over _sections.
RECURSIVE FillByName(_, _, _, _)
FillByName(items, i, skipEmpty, m) ==
    IF i > Len(items) THEN m
    ELSE FillByName(items, i + 1, skipEmpty,
            IF skipEmpty /\ items[i].name = << >> THEN m
            ELSE MapPut(m, items[i].name, i))

\* std::sort by address: the pointers in ascending address order; the order
\* of entries of equal address is whatever the sort leaves.
SortedOrders(items) ==
    {p \in Permutations(1..Len(items)) :
        \A i \in 1..(Len(items) - 1) : items[p[i]].address <= items[p[i + 1]].address}

\* buildLookups() without its early return: every call fills and sorts again.
BuildLookups_Always ==
    /\ _symbolByName' = FillByName(_symbols, 1, TRUE, << >>)
    /\ _sectionByName' = FillByName(_sections, 1, FALSE, << >>)
    /\ _symbolsSortedByAddr' \in SortedOrders(_symbols)
    /\ _sectionsSortedByAddr' \in SortedOrders(_sections)
    /\ _lookupBuilt' = TRUE

BuildLookups ==
    IF _lookupBuilt THEN UNCHANGED lookupVars
    ELSE /\ _symbolByName' = FillByName(_symbols, 1, TRUE, << >>)
         /\ _sectionByName' = FillByName(_sections, 1, FALSE, << >>)
         /\ _symbolsSortedByAddr' \in SortedOrders(_symbols)
         /\ _sectionsSortedByAddr' \in SortedOrders(_sections)
         /\ _lookupBuilt' = TRUE

\* --------------------------------------------------------------- the queries
\* The binary search of std::lower_bound / std::upper_bound over a range of
\* len elements from position first (0-based); right[i] says that the search
\* goes right of element i.
RECURSIVE BinarySearch(_, _, _)
BinarySearch(right, first, len) ==
    IF len <= 0 THEN first
    ELSE LET half == len \div 2
             mid == first + half
         IN  IF right[mid + 1] THEN BinarySearch(right, mid + 1, len - half - 1)
             ELSE BinarySearch(right, first, half)

\* less[i] = comp(element i, value)
LowerBound(less) == BinarySearch(less, 0, Len(less))

\* greater[i] = comp(value, element i)
UpperBound(greater) == BinarySearch([i \in DOMAIN greater |-> ~greater[i]], 0, Len(greater))

\* The containment test with its upper comparison made inclusive.
Contains_Closed(e, addr) == e.address <= addr /\ addr <= Wrap(e.address + e.size)

Contains(e, addr) == e.address <= addr /\ addr < Wrap(e.address + e.size)

EndsAtOrBefore(sorted, items, addr) ==
    [i \in 1..Len(sorted) |->
        Wrap(items[sorted[i]].address + items[sorted[i]].size) <= addr]

SymbolByAddress(sorted, syms, addr) ==
    LET n == Len(sorted)
        lb == LowerBound(EndsAtOrBefore(sorted, syms, addr))
        it == IF lb # 0 THEN lb - 1 ELSE lb
    IN  IF it # n /\ Contains(syms[sorted[it + 1]], addr) THEN sorted[it + 1]
        ELSE NotFound

NearestSymbol_Strict(sorted, syms, addr) ==
    LET it == UpperBound([i \in 1..Len(sorted) |-> addr <= syms[sorted[i]].address])
    IN  IF it = 0 THEN NotFound ELSE sorted[it]

NearestSymbol(sorted, syms, addr) ==
    LET it == UpperBound([i \in 1..Len(sorted) |-> addr < syms[sorted[i]].address])
    IN  IF it = 0 THEN NotFound ELSE sorted[it]

SectionByAddress(sorted, secs, addr) ==
    LET n == Len(sorted)
        it == LowerBound(EndsAtOrBefore(sorted, secs, addr))
    IN  IF it # n /\ Contains(secs[sorted[it + 1]], addr) THEN sorted[it + 1]
        ELSE IF it # 0 /\ Contains(secs[sorted[it]], addr) THEN sorted[it]
        ELSE NotFound

ByName(m, name) == IF name \in DOMAIN m THEN m[name] ELSE NotFound

isValid_Inverted == _valid \/ ~_unsafeAccessEnabled

isValid == _valid \/ _unsafeAccessEnabled

getMetadata ==
    IF ~isValid THEN ZeroMeta
    ELSE [type |-> _elfHeader.e_type, machine |-> _elfHeader.e_machine,
          version |-> _elfHeader.e_version, entry |-> _elfHeader.e_entry,
          flags |-> _elfHeader.e_flags]

QueryAddrs == 0..MaxAddr \cup {AddrSpace - 2, AddrSpace - 1}
QueryNames == {<< >>, <<"a">>, <<"b">>, <<"c">>}

\* The report of getValidationLog(), line by line (the file path left out).
getValidationLog ==
    LET ok == _lastError = "" /\ _valid
    IN  [head |-> IF ok THEN "ELF file parsed successfully."
                  ELSE "ELF file parsing failed.",
         error |-> IF ok THEN "" ELSE _lastError,
         stage |-> IF ok THEN "" ELSE _failureStage,
         valid |-> IF _valid THEN "yes" ELSE "no",
         sections |-> Len(_sections),
         symbols |-> Len(_symbols),
         programHeaders |-> Len(_programHeaders)]

\* An accessor that hands the error out and resets it.
Getter_ConsumesError(op, val) ==
    /\ pc = "ready"
    /\ ret' = [op |-> op, arg |-> 0, val |-> val]
    /\ _lastError' = ""
    /\ UNCHANGED <<file, thr, pc, _unsafeAccessEnabled, _valid, _sections, _symbols,
                   _elfHeader, _sectionHeaders, _programHeaders,
                   _sectionStringTableRaw, _failureStage, lookupVars, localVars, reads>>

\* A const method that does not touch the lookup index.
Getter(op, val) ==
    /\ pc = "ready"
    /\ ret' = [op |-> op, arg |-> 0, val |-> val]
    /\ UNCHANGED <<file, thr, pc, _unsafeAccessEnabled, parsedVars, lookupVars, localVars, reads>>

IsValid == Getter("isValid", isValid)
GetSections == Getter("getSections", _sections)
GetSymbols == Getter("getSymbols", _symbols)
GetMetadata == Getter("getMetadata", getMetadata)
GetLastError == Getter("getLastError", _lastError)
GetFailureStage == Getter("getFailureStage", _failureStage)
GetProgramHeaders == Getter("getProgramHeaders", _programHeaders)
GetValidationLog == Getter("getValidationLog", getValidationLog)

GetSymbolByAddress(addr) ==
    /\ pc = "ready"
    /\ BuildLookups
    /\ ret' = [op |-> "getSymbolByAddress", arg |-> addr,
               val |-> SymbolByAddress(_symbolsSortedByAddr', _symbols, addr)]
    /\ UNCHANGED <<file, thr, pc, _unsafeAccessEnabled, parsedVars, localVars, reads>>

GetSymbolByName(name) ==
    /\ pc = "ready"
    /\ BuildLookups
    /\ ret' = [op |-> "getSymbolByName", arg |-> name, val |-> ByName(_symbolByName', name)]
    /\ UNCHANGED <<file, thr, pc, _unsafeAccessEnabled, parsedVars, localVars, reads>>

GetNearestSymbol(addr) ==
    /\ pc = "ready"
    /\ BuildLookups
    /\ ret' = [op |-> "getNearestSymbol", arg |-> addr,
               val |-> NearestSymbol(_symbolsSortedByAddr', _symbols, addr)]
    /\ UNCHANGED <<file, thr, pc, _unsafeAccessEnabled, parsedVars, localVars, reads>>

GetSectionByAddress(addr) ==
    /\ pc = "ready"
    /\ BuildLookups
    /\ ret' = [op |-> "getSectionByAddress", arg |-> addr,
               val |-> SectionByAddress(_sectionsSortedByAddr', _sections, addr)]
    /\ UNCHANGED <<file, thr, pc, _unsafeAccessEnabled, parsedVars, localVars, reads>>

GetSectionByName(name) ==
    /\ pc = "ready"
    /\ BuildLookups
    /\ ret' = [op |-> "getSectionByName", arg |-> name, val |-> ByName(_sectionByName', name)]
    /\ UNCHANGED <<file, thr, pc, _unsafeAccessEnabled, parsedVars, localVars, reads>>

\* enableUnsafeAccess() as it would be if it marked the object valid.
EnableUnsafeAccess_MarksValid ==
    /\ pc = "ready"
    /\ _unsafeAccessEnabled' = TRUE
    /\ _valid' = TRUE
    /\ ret' = [op |-> "enableUnsafeAccess", arg |-> 0, val |-> 0]
    /\ UNCHANGED <<file, thr, pc, _sections, _symbols, _elfHeader, _sectionHeaders,
                   _programHeaders, _sectionStringTableRaw, _lastError, _failureStage,
                   lookupVars, localVars, reads>>

EnableUnsafeAccess ==
    /\ pc = "ready"
    /\ _unsafeAccessEnabled' = TRUE
    /\ ret' = [op |-> "enableUnsafeAccess", arg |-> 0, val |-> 0]
    /\ UNCHANGED <<file, thr, pc, parsedVars, lookupVars, localVars, reads>>

Next ==
    \/ ParseOpen
    \/ ParseReadHeader
    \/ ParseCheckHeader
    \/ ParseSectionHeaders
    \/ ParseShstrtab
    \/ ParsePopulateSections
    \/ ParseSymbols
    \/ ParseProgramHeaders
    \/ ParseSetValid
    \/ Construct
    \/ IsValid
    \/ GetSections
    \/ GetSymbols
    \/ GetMetadata
    \/ GetLastError
    \/ GetFailureStage
    \/ GetProgramHeaders
    \/ GetValidationLog
    \/ \E addr \in QueryAddrs : GetSymbolByAddress(addr)
    \/ \E name \in QueryNames : GetSymbolByName(name)
    \/ \E addr \in QueryAddrs : GetNearestSymbol(addr)
    \/ \E addr \in QueryAddrs : GetSectionByAddress(addr)
    \/ \E name \in QueryNames : GetSectionByName(name)
    \/ EnableUnsafeAccess

Spec == Init /\ [][Next]_vars

\* ------------------------------------------- name resolution on its own
\* The name-resolution block of parse() and parseSymbols() applied to every
\* string table of up to MaxBlob bytes (held in shstr) at every offset.
Blobs == SeqsUpTo({NUL, "a", "b"}, MaxBlob)

InitNames ==
    /\ file = MkFile(<<ShstrDesc>>, 0, 0)
    /\ pc = "resolveName"
    /\ _unsafeAccessEnabled = FALSE
    /\ _valid = FALSE
    /\ _sections = << >>
    /\ _symbols = << >>
    /\ _elfHeader = ZeroEhdr
    /\ _sectionHeaders = << >>
    /\ _programHeaders = << >>
    /\ _sectionStringTableRaw = << >>
    /\ _lastError = ""
    /\ _failureStage = StageHeader
    /\ _symbolByName = << >>
    /\ _symbolsSortedByAddr = << >>
    /\ _sectionsSortedByAddr = << >>
    /\ _sectionByName = << >>
    /\ _lookupBuilt = FALSE
    /\ ehdr = ZeroEhdr
    /\ shdrs = << >>
    /\ shstr \in Blobs
    /\ streamFail = FALSE
    /\ reads = {}
    /\ thr = [t \in Threads |-> Idle]
    /\ ret = NoCall

ResolveAt(off) ==
    /\ pc = "resolveName"
    /\ ret' = [op |-> "resolveName", arg |-> off, val |-> NameScan(shstr, off)]
    /\ UNCHANGED <<file, thr, pc, _unsafeAccessEnabled, parsedVars, lookupVars, localVars, reads>>

NextNames == \E off \in 0..(MaxBlob + 1) : ResolveAt(off)

SpecNames == InitNames /\ [][NextNames]_vars

\* ------------------------------------------------- concurrent first queries
\* Two threads call getSymbolByName on one constructed object.  A thread goes
\* through buildLookups() statement by statement, then through the find; the
\* members it reads and writes are the object's own, with no lock taken.
ConstructedFiles ==
    { MkFile(<<SymDesc(SHT_SYMTAB, 1, SymSize, syms), StrDesc, ShstrDesc>>, 2, 0) :
        syms \in {TwoSyms, <<Sym(1, 2, 0, 4)>>} }

\* The object as the constructor leaves it for a file of ConstructedFiles.
InitThreads ==
    /\ file \in ConstructedFiles
    /\ pc = "ready"
    /\ _unsafeAccessEnabled = FALSE
    /\ _valid = TRUE
    /\ _sections = [i \in 1..Len(file.shdrs) |-> BuildSection(file.shdrs[i], NameBlob)]
    /\ _symbols = LET raw == ContentAt(file, file.shdrs[1].sh_offset)
                  IN  [j \in 1..Len(raw) |-> BuildSymbol(raw[j], NameBlob)]
    /\ _elfHeader = file.ehdr
    /\ _sectionHeaders = file.shdrs
    /\ _programHeaders = << >>
    /\ _sectionStringTableRaw = NameBlob
    /\ _lastError = ""
    /\ _failureStage = StageSymbols
    /\ _symbolByName = << >>
    /\ _symbolsSortedByAddr = [j \in 1..(file.shdrs[1].sh_size \div SymSize) |-> j]
    /\ _sectionsSortedByAddr = [i \in 1..Len(file.shdrs) |-> i]
    /\ _sectionByName = << >>
    /\ _lookupBuilt = FALSE
    /\ ehdr = ZeroEhdr
    /\ shdrs = << >>
    /\ shstr = << >>
    /\ streamFail = FALSE
    /\ reads = { [what |-> "ehdr", want |-> EhdrSize, got |-> EhdrSize],
                 [what |-> "shdrs", want |-> 3 * ShdrSize, got |-> 3 * ShdrSize],
                 [what |-> "shstrtab", want |-> Len(NameBlob), got |-> Len(NameBlob)],
                 [what |-> "symtab", want |-> file.shdrs[1].sh_size,
                  got |-> file.shdrs[1].sh_size],
                 [what |-> "strtab", want |-> Len(NameBlob), got |-> Len(NameBlob)] }
    /\ thr = [t \in Threads |-> Idle]
    /\ ret = NoCall

\* Positions inside buildLookups() past the test of the built flag, and the
\* position of the find in the name map.
BuildRegion ==
    {"clearSymbols", "fillSymbols", "clearSections", "fillSections", "sort", "setBuilt"}
ReadRegion == {"find"}

Goto(t, to) == thr' = [thr EXCEPT ![t].pc = to]

\* getSymbolByName(name) is entered.
T_Call(t, name) ==
    /\ pc = "ready" /\ thr[t].pc = "idle"
    /\ thr' = [thr EXCEPT ![t] = [pc |-> "check", name |-> name, val |-> NotFound]]
    /\ UNCHANGED <<file, pc, _unsafeAccessEnabled, parsedVars, lookupVars, localVars,
                   reads, ret>>

\* if (_lookupBuilt) return;
T_Check(t) ==
    /\ thr[t].pc = "check"
    /\ Goto(t, IF _lookupBuilt THEN "find" ELSE "clearSymbols")
    /\ UNCHANGED <<file, pc, _unsafeAccessEnabled, parsedVars, lookupVars, localVars,
                   reads, ret>>

\* _symbolByName.clear();
T_ClearSymbols(t) ==
    /\ thr[t].pc = "clearSymbols"
    /\ _symbolByName' = << >>
    /\ Goto(t, "fillSymbols")
    /\ UNCHANGED <<file, pc, _unsafeAccessEnabled, parsedVars, _symbolsSortedByAddr,
                   _sectionsSortedByAddr, _sectionByName, _lookupBuilt, localVars,
                   reads, ret>>

\* for (sym : _symbols) if (!sym.name.empty()) _symbolByName[sym.name] = &sym;
T_FillSymbols(t) ==
    /\ thr[t].pc = "fillSymbols"
    /\ _symbolByName' = FillByName(_symbols, 1, TRUE, _symbolByName)
    /\ Goto(t, "clearSections")
    /\ UNCHANGED <<file, pc, _unsafeAccessEnabled, parsedVars, _symbolsSortedByAddr,
                   _sectionsSortedByAddr, _sectionByName, _lookupBuilt, localVars,
                   reads, ret>>

\* _sectionByName.clear();
T_ClearSections(t) ==
    /\ thr[t].pc = "clearSections"
    /\ _sectionByName' = << >>
    /\ Goto(t, "fillSections")
    /\ UNCHANGED <<file, pc, _unsafeAccessEnabled, parsedVars, _symbolsSortedByAddr,
                   _sectionsSortedByAddr, _symbolByName, _lookupBuilt, localVars,
                   reads, ret>>

\* for (sec : _sections) _sectionByName[sec.name] = &sec;
T_FillSections(t) ==
    /\ thr[t].pc = "fillSections"
    /\ _sectionByName' = FillByName(_sections, 1, FALSE, _sectionByName)
    /\ Goto(t, "sort")
    /\ UNCHANGED <<file, pc, _unsafeAccessEnabled, parsedVars, _symbolsSortedByAddr,
                   _sectionsSortedByAddr, _symbolByName, _lookupBuilt, localVars,
                   reads, ret>>

\* The two std::sort calls.
T_Sort(t) ==
    /\ thr[t].pc = "sort"
    /\ _symbolsSortedByAddr' \in SortedOrders(_symbols)
    /\ _sectionsSortedByAddr' \in SortedOrders(_sections)
    /\ Goto(t, "setBuilt")
    /\ UNCHANGED <<file, pc, _unsafeAccessEnabled, parsedVars, _symbolByName,
                   _sectionByName, _lookupBuilt, localVars, reads, ret>>

\* _lookupBuilt = true;
T_SetBuilt(t) ==
    /\ thr[t].pc = "setBuilt"
    /\ _lookupBuilt' = TRUE
    /\ Goto(t, "find")
    /\ UNCHANGED <<file, pc, _unsafeAccessEnabled, parsedVars, _symbolByName,
                   _sectionByName, _symbolsSortedByAddr, _sectionsSortedByAddr,
                   localVars, reads, ret>>

\* auto it = _symbolByName.find(name); return found ? it->second : nullptr;
T_Find(t) ==
    /\ thr[t].pc = "find"
    /\ thr' = [thr EXCEPT ![t].pc = "done", ![t].val = ByName(_symbolByName, thr[t].name)]
    /\ UNCHANGED <<file, pc, _unsafeAccessEnabled, parsedVars, lookupVars, localVars,
                   reads, ret>>

\* A thread reads or writes the index while another thread writes it: a data
\* race, whose behaviour is undefined.  Besides the interleavings above, the
\* process may die.
T_Race(t) ==
    /\ thr[t].pc \in BuildRegion \cup ReadRegion
    /\ \E u \in Threads \ {t} : thr[u].pc \in BuildRegion
    /\ thr' = [u \in Threads |-> [thr[u] EXCEPT !.pc = "crashed"]]
    /\ UNCHANGED <<file, pc, _unsafeAccessEnabled, parsedVars, lookupVars, localVars,
                   reads, ret>>

NextThreads ==
    \E t \in Threads :
        \/ \E name \in {<<"a">>, <<"b">>} : T_Call(t, name)
        \/ T_Check(t)
        \/ T_ClearSymbols(t)
        \/ T_FillSymbols(t)
        \/ T_ClearSections(t)
        \/ T_FillSections(t)
        \/ T_Sort(t)
        \/ T_SetBuilt(t)
        \/ T_Find(t)
        \/ T_Race(t)

SpecThreads == InitThreads /\ [][NextThreads]_vars

\* ------------------------------------------------------------------ claims
Ready == pc = "ready"

SymIdx == 1..Len(_symbols)
SecIdx == 1..Len(_sections)

NoWrap(e) == e.address + e.size < AddrSpace

\* No symbol range wraps and no two symbol ranges overlap, so at most one
\* symbol contains any address.
SeparateSymbols ==
    \A i \in SymIdx :
        /\ NoWrap(_symbols[i])
        /\ \A j \in SymIdx \ {i} :
              \/ _symbols[i].address + _symbols[i].size <= _symbols[j].address
              \/ _symbols[j].address + _symbols[j].size <= _symbols[i].address

\* Every read the parse pass issued was served in full.
AllReadsInFull == \A r \in reads : r.got = r.want

\* C1: on a valid object parsed from a file that served every read, for every
\* symbol s with s.size > 0, getSymbolByAddress(s.address) returns s and never
\* not-found, also when s is not the lowest-addressed of several symbols
\* (stated for symbol lists whose ranges are separate, where the symbol
\* containing s.address is s alone).
C1_SymbolAtItsAddress ==
    (Ready /\ _valid /\ AllReadsInFull /\ SeparateSymbols
           /\ ret.op = "getSymbolByAddress") =>
        \A i \in SymIdx :
            (_symbols[i].size > 0 /\ _symbols[i].address = ret.arg)
                => ret.val = i

\* C2: getSectionByAddress(addr) returns a section that contains addr, or
\* not-found, and not-found only when no section contains addr; also for
\* sections that overlap, nest, share address 0 or are empty.
C2_SectionContainingAddress ==
    (Ready /\ ret.op = "getSectionByAddress") =>
        IF ret.val # NotFound
        THEN ret.val \in SecIdx /\ Contains(_sections[ret.val], ret.arg)
        ELSE \A i \in SecIdx : ~Contains(_sections[i], ret.arg)

\* C3: getNearestSymbol(addr) returns a symbol whose address is the greatest
\* symbol address <= addr, whatever the sizes, and not-found when no symbol
\* has an address <= addr.
C3_NearestSymbol ==
    (Ready /\ ret.op = "getNearestSymbol") =>
        LET below == {i \in SymIdx : _symbols[i].address <= ret.arg}
        IN  IF below = {} THEN ret.val = NotFound
            ELSE /\ ret.val \in below
                 /\ \A i \in below : _symbols[i].address <= _symbols[ret.val].address

\* C3 witness: the symbol returned is not the lowest-addressed one, the query
\* address lies past its start, and another symbol lies above the query.
C3_Witness ==
    /\ Ready /\ ret.op = "getNearestSymbol" /\ ret.val # NotFound
    /\ ret.arg > _symbols[ret.val].address
    /\ \E i \in SymIdx : _symbols[i].address < _symbols[ret.val].address
    /\ ret.arg < MaxAddr

\* C4: getSymbolByName(n) for a non-empty name n that some symbol carries
\* returns the last symbol of that name in getSymbols() order; for a name no
\* symbol carries it returns not-found.
C4_SymbolByName ==
    (Ready /\ ret.op = "getSymbolByName") =>
        LET named == {i \in SymIdx : _symbols[i].name = ret.arg}
        IN  /\ named = {} => ret.val = NotFound
            /\ (named # {} /\ ret.arg # << >>) =>
                    (ret.val \in named /\ \A i \in named : i <= ret.val)

\* C4 witness: two symbols share the name asked for and the second is returned.
C4_Witness ==
    /\ Ready /\ ret.op = "getSymbolByName" /\ ret.val = 2
    /\ _symbols[1].name = ret.arg /\ _symbols[2].name = ret.arg

ReadInFull(what) == \E r \in reads : r.what = what /\ r.got = r.want

PhdrsDeclared(eh) == eh.e_phoff # 0 /\ eh.e_phnum > 0

\* What the parse pass completed: the header read and accepted, all section
\* headers and the section-name string table read, the declared program
\* headers read.
ParseCompleted ==
    /\ ReadInFull("ehdr")
    /\ file.ehdr.magic /\ file.ehdr.class = 2
    /\ file.ehdr.e_shoff # 0 /\ file.ehdr.e_shnum # 0
    /\ ReadInFull("shdrs")
    /\ ReadInFull("shstrtab")
    /\ PhdrsDeclared(file.ehdr) => ReadInFull("phdrs")

\* C5: with unsafe access never enabled, isValid() is true exactly when the
\* parse pass completed the header, section-header, string-table and declared
\* program-header reads; _valid is false at every step of parse() before the last.
C5_ValidIffParseCompleted ==
    /\ (Ready /\ ~_unsafeAccessEnabled) => (isValid <=> ParseCompleted)
    /\ pc \notin {"ctor", "ready"} => ~_valid

\* C5 witness: a valid object whose program headers were declared and read.
C5_Witness ==
    /\ Ready /\ ~_unsafeAccessEnabled /\ isValid
    /\ PhdrsDeclared(file.ehdr) /\ Len(_programHeaders) = 2
    /\ Len(_symbols) = 2

\* The header, the section headers, the section-name string table and the
\* declared program headers all lie inside the file.
PresentInFull(f) ==
    /\ f.exists /\ f.len >= EhdrSize
    /\ f.ehdr.magic /\ f.ehdr.class = 2 /\ f.ehdr.e_shoff # 0 /\ f.ehdr.e_shnum # 0
    /\ f.ehdr.e_shoff + ShdrSize * f.ehdr.e_shnum <= f.len
    /\ f.ehdr.e_shstrndx < Len(f.shdrs)
    /\ LET h == f.shdrs[f.ehdr.e_shstrndx + 1] IN h.sh_offset + h.sh_size <= f.len
    /\ PhdrsDeclared(f.ehdr) => f.ehdr.e_phoff + PhdrSize * f.ehdr.e_phnum <= f.len

HasType(f, types) == \E i \in 1..Len(f.shdrs) : f.shdrs[i].sh_type \in types

\* C6: symbol extraction never changes validity: a file whose header, section
\* headers, section-name string table and declared program headers are present
\* in full yields isValid() and an empty lastError, also when the symbol table
\* cannot be read in full; a file without symbol table yields no symbols.
C6_SymbolsNeverInvalidate ==
    Ready =>
        /\ PresentInFull(file) => (isValid /\ _lastError = "")
        /\ ~HasType(file, {SHT_SYMTAB, SHT_DYNSYM}) => _symbols = << >>

\* The header-stage rejection a file must get, by precedence.
HeaderFault(f) ==
    IF ~f.exists THEN ErrOpen
    ELSE IF f.len < EhdrSize THEN ErrHeader
    ELSE IF ~f.ehdr.magic THEN ErrMagic
    ELSE IF f.ehdr.class # 2 THEN ErrClass
    ELSE IF f.ehdr.e_shoff = 0 \/ f.ehdr.e_shnum = 0 THEN ErrNoSections
    ELSE ""

\* C7: header-stage rejections are distinct and take a fixed precedence
\* (open/header read, magic, class, section headers); each leaves isValid()
\* false, the stage Header, and no sections or symbols.
C7_HeaderRejections ==
    /\ Cardinality({ErrOpen, ErrHeader, ErrMagic, ErrClass, ErrNoSections, ""}) = 6
    /\ (Ready /\ HeaderFault(file) # "") =>
            /\ _lastError = HeaderFault(file)
            /\ ~_unsafeAccessEnabled => ~isValid
            /\ _failureStage = StageHeader
            /\ _sections = << >> /\ _symbols = << >>

\* C7 witness: a readable header with a wrong magic, class 1 and no section
\* headers is rejected as not an ELF file.
C7_Witness ==
    /\ Ready /\ file.exists /\ file.len >= EhdrSize
    /\ ~file.ehdr.magic /\ file.ehdr.class = 1 /\ file.ehdr.e_shoff = 0
    /\ _lastError = ErrMagic

LookupOps ==
    {"getSymbolByName", "getSymbolByAddress", "getNearestSymbol",
     "getSectionByName", "getSectionByAddress"}

\* C8: on an object whose parse failed (unsafe access not enabled) every
\* query returns not-found or empty: no sections, no symbols, every lookup
\* not-found, the metadata all zero.
C8_FailedObjectIsEmpty ==
    (Ready /\ ~_valid /\ ~_unsafeAccessEnabled) =>
        /\ _sections = << >> /\ _symbols = << >>
        /\ ret.op \in LookupOps => ret.val = NotFound
        /\ ret.op = "getMetadata" => ret.val = ZeroMeta

\* C9: the bypass is off by default and explicit: the flag is false until
\* construction ends, only enableUnsafeAccess() changes it, and isValid() on a
\* failed object returns true only with the flag set.
C9_BypassExplicit ==
    /\ [](~Ready => ~_unsafeAccessEnabled)
    /\ []((Ready /\ ret.op = "isValid" /\ ~_valid) => ret.val = _unsafeAccessEnabled)
    /\ [][_unsafeAccessEnabled' # _unsafeAccessEnabled
            => ret'.op = "enableUnsafeAccess"]_vars

\* C9 witness: isValid() returned true on an object whose parse failed.
C9_Witness ==
    Ready /\ ~_valid /\ _lastError # "" /\ ret.op = "isValid" /\ ret.val = TRUE

\* C10: every read of the parse pass is checked: a read that the file serves
\* short ends the parse with isValid() false and an error, and no Section or
\* Symbol is built from the bytes that were not read.
C10_ShortReadIsTerminal ==
    Ready =>
        \A r \in reads :
            r.got < r.want =>
                /\ ~_valid /\ _lastError # ""
                /\ r.what \in {"shdrs", "shstrtab"} => _sections = << >>
                /\ r.what \in {"symtab", "strtab"} => _symbols = << >>

\* The reads of parseSymbols, if issued, were served in full.
SymbolReadsInFull ==
    \A r \in reads : r.what \in {"symtab", "strtab"} => r.got = r.want

\* C11: partially built state is never exposed: what getSections(),
\* getSymbols() and getProgramHeaders() return to a caller (unsafe access not
\* enabled) is empty unless the parse succeeded, and after a successful parse
\* getProgramHeaders() holds the declared program headers as the file has
\* them (stated for parses whose symbol reads were served in full, so that a
\* failure is one of the checked reads).
C11_NoPartialState ==
    (Ready /\ ~_unsafeAccessEnabled /\ SymbolReadsInFull
           /\ ret.op \in {"getSections", "getSymbols", "getProgramHeaders"}) =>
        /\ ~_valid => ret.val = << >>
        /\ (_valid /\ ret.op = "getProgramHeaders" /\ PhdrsDeclared(file.ehdr))
                => ret.val = file.phdrs

\* C12: name resolution is bounds-safe and total: the name resolved at an
\* offset of a string table is the bytes from the offset up to the first null
\* byte at or after it; it is empty when the table is empty, the offset is at
\* or past its length, or no null byte follows; no index at or past the
\* table's length is read.
C12_NameResolution ==
    ret.op = "resolveName" =>
        LET off == ret.arg
            n == Len(shstr)
            nuls == {p \in off..(n - 1) : shstr[p + 1] = NUL}
        IN  /\ \A p \in ret.val.read : p < n
            /\ IF n = 0 \/ off >= n \/ nuls = {}
               THEN ret.val.name = << >>
               ELSE LET e == CHOOSE p \in nuls : \A q \in nuls : p <= q
                    IN  ret.val.name = SubSeq(shstr, off + 1, e)

\* C12 witness: a non-empty name resolved at an offset past the start of a
\* table, ended by a null byte inside the table.
C12_Witness ==
    /\ ret.op = "resolveName" /\ ret.arg > 0
    /\ ret.val.name # << >>
    /\ Len(ret.val.name) + ret.arg < Len(shstr)

\* C12 witness of the defensive case: an offset inside a table with no null
\* byte after it resolves to the empty name.
C12_WitnessUnterminated ==
    /\ ret.op = "resolveName" /\ ret.arg < Len(shstr)
    /\ \A p \in (ret.arg + 1)..Len(shstr) : shstr[p] # NUL
    /\ ret.val.name = << >>

\* C13: the lookup index is built at most once: every lookup query leaves the
\* built flag set, once the flag is set no step changes the name maps or the
\* address-sorted arrays, and a lookup query repeated returns what it
\* returned before.
C13_LookupBuiltOnce ==
    /\ []((Ready /\ ret.op \in LookupOps) => _lookupBuilt)
    /\ [][_lookupBuilt => lookupVars' = lookupVars]_vars
    /\ [][(ret.op \in LookupOps /\ ret'.op = ret.op /\ ret'.arg = ret.arg)
            => ret'.val = ret.val]_vars

\* C13 witness: an index built by an earlier query, over symbols of equal
\* address that the sort did not leave in their on-disk order, answers a
\* by-name query.
C13_Witness ==
    /\ Ready /\ _lookupBuilt /\ ret.op = "getSectionByName"
    /\ Len(_symbols) = 2 /\ _symbols[1].address = _symbols[2].address
    /\ _symbols[1] # _symbols[2]
    /\ _symbolsSortedByAddr = <<2, 1>>

\* C14: after construction the parsed data is immutable: every step taken on
\* a constructed object leaves the section list, the symbol list, the raw
\* headers, the validity flag, the last error and the failure stage unchanged,
\* and every step other than enableUnsafeAccess() leaves the bypass flag
\* unchanged; only the lookup index and its built flag may change.
C14_QueriesLeaveParsedData ==
    [][pc = "ready" =>
          /\ parsedVars' = parsedVars
          /\ ret'.op # "enableUnsafeAccess" => _unsafeAccessEnabled' = _unsafeAccessEnabled]_vars

\* C14 witness: a failed object with its error and partial lists in place
\* after a lookup query built the index and the report was asked for.
C14_Witness ==
    /\ Ready /\ _lookupBuilt /\ ret.op = "getValidationLog"
    /\ _lastError # "" /\ ret.val.error = _lastError
    /\ ret.val.sections = Len(_sections) /\ Len(_sections) > 0

\* C15: a zero-size symbol is never the result of an exact address lookup:
\* a symbol r returned by getSymbolByAddress(addr) has
\* r.address <= addr < r.address + r.size, hence r.size > 0; and for a symbol
\* of size 0 whose address no symbol covers the lookup reports not-found.
C15_ZeroSizeNeverReturned ==
    (Ready /\ ret.op = "getSymbolByAddress") =>
        LET covers(i) == /\ _symbols[i].address <= ret.arg
                         /\ ret.arg < _symbols[i].address + _symbols[i].size
        IN  /\ ret.val # NotFound =>
                  (ret.val \in SymIdx /\ covers(ret.val) /\ _symbols[ret.val].size > 0)
            /\ ( /\ \E i \in SymIdx :
                        _symbols[i].size = 0 /\ _symbols[i].address = ret.arg
                  /\ \A j \in SymIdx : ~covers(j) )
                  => ret.val = NotFound

\* C15 witness: the address of a zero-size symbol that no symbol covers is
\* looked up, among two symbols of which the other has a size, and not found.
C15_Witness ==
    /\ Ready /\ _valid /\ ret.op = "getSymbolByAddress" /\ ret.val = NotFound
    /\ \E i, j \in SymIdx :
          /\ _symbols[i].size = 0 /\ _symbols[i].address = ret.arg
          /\ _symbols[j].size > 0 /\ _symbols[j].address < ret.arg
          /\ _symbols[j].address + _symbols[j].size <= ret.arg

\* C15 witness of the first half: a symbol is returned for an address past
\* its start.
C15_WitnessReturned ==
    /\ Ready /\ ret.op = "getSymbolByAddress" /\ ret.val # NotFound
    /\ _symbols[ret.val].address < ret.arg

\* No section range wraps and no two section ranges share an address.
DisjointSections ==
    \A i \in SecIdx :
        /\ NoWrap(_sections[i])
        /\ \A j \in SecIdx \ {i} :
              \/ _sections[i].address + _sections[i].size <= _sections[j].address
              \/ _sections[j].address + _sections[j].size <= _sections[i].address

\* C16: adjacent sections are both resolvable: on a valid object from a file
\* that served every read, whose section ranges are pairwise disjoint, for
\* sections A and B of size > 0 with A.address + A.size = B.address,
\* getSectionByAddress returns A for every address in A and B for every
\* address in B.
C16_AdjacentSections ==
    (Ready /\ _valid /\ AllReadsInFull /\ DisjointSections
           /\ ret.op = "getSectionByAddress") =>
        \A a, b \in SecIdx :
            ( /\ _sections[a].size > 0 /\ _sections[b].size > 0
              /\ _sections[a].address + _sections[a].size = _sections[b].address )
            => /\ ( _sections[a].address <= ret.arg /\ ret.arg < _sections[b].address )
                     => ret.val = a
               /\ ( /\ _sections[b].address <= ret.arg
                     /\ ret.arg < _sections[b].address + _sections[b].size )
                     => ret.val = b

\* ParseStage in declaration order.
StageRank(stage) ==
    CASE stage = "Header" -> 0
      [] stage = "SectionHeaders" -> 1
      [] stage = "Symbols" -> 2
      [] stage = "ProgramHeaders" -> 3

\* The stage at which each fatal error is recorded.
StageOfError(err) ==
    IF err \in {ErrOpen, ErrHeader, ErrMagic, ErrClass, ErrNoSections} THEN "Header"
    ELSE IF err \in {ErrSectionHeader, ErrShstrtab} THEN "SectionHeaders"
    ELSE "ProgramHeaders"

\* C17: the parse stage only advances in the order Header, SectionHeaders,
\* Symbols, ProgramHeaders; after a failed parse getFailureStage() is the
\* stage of the error recorded: Header for open, header, magic, class and
\* no-section-headers errors, SectionHeaders for a short section header or
\* section-name string table, ProgramHeaders for a short program header.
C17_StageMonotone ==
    /\ [][StageRank(_failureStage') >= StageRank(_failureStage)]_vars
    /\ []((Ready /\ ~_valid) =>
            /\ _lastError # ""
            /\ _failureStage = StageOfError(_lastError)
            /\ ret.op = "getFailureStage" => ret.val = StageOfError(_lastError))

\* C17 witness: getFailureStage() answers SectionHeaders on an object whose
\* section-name string table was cut short.
C17_Witness ==
    /\ Ready /\ ~_valid /\ _lastError = ErrShstrtab
    /\ ret.op = "getFailureStage" /\ ret.val = "SectionHeaders"

\* The messages parse() records.
ErrorMessages ==
    {ErrOpen, ErrHeader, ErrMagic, ErrClass, ErrNoSections, ErrSectionHeader,
     ErrShstrtab, ErrProgramHeader}

\* C18: after construction getLastError() is empty if and only if the parse
\* succeeded; a failed parse records one message, that of its first fatal
\* error, and no step changes a message once recorded.
C18_ErrorIffFailed ==
    /\ [](Ready => /\ (_lastError = "" <=> _valid)
                   /\ ~_valid => _lastError \in ErrorMessages
                   /\ ret.op = "getLastError" => ret.val = _lastError)
    /\ [][_lastError # "" => _lastError' = _lastError]_vars

\* C18 witness: getLastError() returns the program-header message on a failed
\* object after a lookup query built the index.
C18_Witness ==
    /\ Ready /\ ~_valid /\ _lookupBuilt
    /\ ret.op = "getLastError" /\ ret.val = ErrProgramHeader

\* C19: construction of the lookup index is safe under concurrent callers:
\* of two threads that issue their first query at once at most one is inside
\* the build, and no thread searches the name map while another thread is
\* clearing, filling or sorting the index.
C19_BuildSynchronized ==
    \A t, u \in Threads :
        t # u =>
            /\ ~(thr[t].pc \in BuildRegion /\ thr[u].pc \in BuildRegion)
            /\ ~(thr[t].pc \in ReadRegion /\ thr[u].pc \in BuildRegion)

\* C19, by its effect: a thread's getSymbolByName(n) for the name n of a
\* symbol returns that symbol.
C19_ConcurrentResult ==
    \A t \in Threads :
        (thr[t].pc = "done" /\ \E i \in SymIdx : _symbols[i].name = thr[t].name)
            => thr[t].val # NotFound

\* Indices (1-based) of the headers of a type in the file, the one at the
\* 0-based index skip left out; the lowest and the highest of a set.
HeadersOfType(type, skip) ==
    {i \in 1..Len(file.shdrs) : file.shdrs[i].sh_type = type /\ i - 1 # skip}
Lowest(S) == CHOOSE x \in S : \A y \in S : x <= y
Highest(S) == CHOOSE x \in S : \A y \in S : x >= y

\* The symbols of the symbol table at header si, named from the string table
\* at header ti.
SymbolsFrom(si, ti) ==
    LET raw == ContentAt(file, file.shdrs[si].sh_offset)
        strtab == ContentAt(file, file.shdrs[ti].sh_offset)
    IN  [j \in 1..Len(raw) |-> BuildSymbol(raw[j], strtab)]

\* A complete file parsed with success, in which the primary rule selects:
\* it has a static symbol table (all with records of the size of a symbol)
\* and a string table besides the section-name table.
PrimaryRuleSelected ==
    /\ Ready /\ _valid /\ AllReadsInFull
    /\ HeadersOfType(SHT_SYMTAB, -1) # {}
    /\ HeadersOfType(SHT_STRTAB, file.ehdr.e_shstrndx) # {}
    /\ \A i \in HeadersOfType(SHT_SYMTAB, -1) : file.shdrs[i].sh_entsize = SymSize

FallbackRuleSelected ==
    /\ Ready /\ _valid /\ AllReadsInFull
    /\ HeadersOfType(SHT_SYMTAB, -1) = {}
    /\ HeadersOfType(SHT_DYNSYM, -1) # {}
    /\ \A i \in HeadersOfType(SHT_DYNSYM, -1) : file.shdrs[i].sh_entsize = SymSize

\* C21: under the fallback rule the symbols are those of the first SHT_DYNSYM
\* section, named from the SHT_STRTAB section (not the one at e_shstrndx)
\* whose index is that section's sh_link, wherever the two lie in the header
\* table; there are no symbols when no string table has that index.  With a
\* static symbol table in the file the dynamic one is not used.
C21_FallbackRule ==
    /\ FallbackRuleSelected =>
          LET d == Lowest(HeadersOfType(SHT_DYNSYM, -1))
              linked == file.shdrs[d].sh_link + 1
          IN  _symbols = IF linked \in HeadersOfType(SHT_STRTAB, file.ehdr.e_shstrndx)
                         THEN SymbolsFrom(d, linked)
                         ELSE << >>
    /\ (PrimaryRuleSelected /\ HeadersOfType(SHT_DYNSYM, -1) # {}) =>
          \E si \in HeadersOfType(SHT_SYMTAB, -1), ti \in 1..Len(file.shdrs) :
              _symbols = SymbolsFrom(si, ti)

\* The enumerators of SymbolType: NOTYPE .. TLS are 0 .. 6.
UNKNOWN == 255
SymbolTypes == 0..6 \cup {UNKNOWN}

\* C22: the type of every Symbol of getSymbols() is one of the eight
\* enumerators of SymbolType, and it is decoded from the low four bits of the
\* record's st_info: 0..6 as they are, 7..15 as UNKNOWN.
C22_TypeDecoded ==
    /\ Ready => \A j \in SymIdx : _symbols[j].type \in SymbolTypes
    /\ PrimaryRuleSelected =>
          LET raw == ContentAt(file, file.shdrs[Highest(HeadersOfType(SHT_SYMTAB, -1))].sh_offset)
          IN  \A j \in SymIdx :
                  _symbols[j].type = IF raw[j].st_info % 16 <= 6 THEN raw[j].st_info % 16
                                     ELSE UNKNOWN

StablySorted(sorted, items) ==
    /\ Len(sorted) = Len(items)
    /\ {sorted[i] : i \in 1..Len(sorted)} = 1..Len(items)
    /\ \A i, j \in 1..Len(sorted) :
          i < j => \/ items[sorted[i]].address < items[sorted[j]].address
                   \/ /\ items[sorted[i]].address = items[sorted[j]].address
                      /\ sorted[i] < sorted[j]

\* C24: on a valid object parsed from a file that served every read, once
\* the lookup index is built, the address-sorted symbol and
\* section arrays are permutations of the parsed collections in ascending
\* address order with entries of equal address in on-disk order; and
\* getNearestSymbol(addr) returns, of the symbols that share the greatest
\* address <= addr, the one that is last in getSymbols() order.
C24_StableAddressOrder ==
    /\ (Ready /\ _valid /\ AllReadsInFull /\ _lookupBuilt) =>
          /\ StablySorted(_symbolsSortedByAddr, _symbols)
          /\ StablySorted(_sectionsSortedByAddr, _sections)
    /\ (Ready /\ _valid /\ AllReadsInFull /\ ret.op = "getNearestSymbol"
          /\ ret.val # NotFound) =>
          \A i \in SymIdx :
              _symbols[i].address = _symbols[ret.val].address => i <= ret.val

C25_WitnessSymbols ==
    /\ Ready /\ _valid /\ ~PhdrsDeclared(file.ehdr)
    /\ ret.op = "getFailureStage" /\ ret.val = StageSymbols

\* The header of the file was read and passed the header checks.
HeaderAccepted ==
    /\ ReadInFull("ehdr")
    /\ HeaderCheck(file.ehdr) = ""

\* C26: for a header that passes the header checks the section-header array
\* is indexed for the section-name string table only below e_shnum: the
\* parse never stands before shdrs[e_shstrndx] with e_shstrndx >= e_shnum, a
\* file with such an index never takes the process down, and the object
\* built from it carries an error or only empty section names.
C26_ShstrndxInRange ==
    (HeaderAccepted /\ file.ehdr.e_shstrndx >= file.ehdr.e_shnum) =>
        /\ pc # "shstrtab"
        /\ pc # "crashed"
        /\ Ready => \/ ~_valid /\ _lastError # ""
                    \/ \A i \in SecIdx : _sections[i].name = << >>

\* C27: reading the selected symbol table is memory-safe whatever its
\* section header holds: when parseSymbols() is about to read it, sh_entsize
\* is not 0 (the entry count sh_size / sh_entsize is defined), the bytes the
\* read obtains fit the buffer of sh_size / sh_entsize records of SymSize
\* bytes, and the process does not die in it.
C27_SymbolReadMemorySafe ==
    /\ pc = "symbols" =>
          LET sel == SelectSymbolSource(shdrs, ehdr.e_shstrndx)
              st == sel.symtab_hdr
          IN  (sel.found_symtab /\ sel.found_strtab) =>
                  /\ st.sh_entsize # 0
                  /\ StreamRead(streamFail, file.len, st.sh_offset, st.sh_size).got
                        <= SymSize * (st.sh_size \div st.sh_entsize)
    /\ (pc = "crashed" /\ HeaderAccepted) => file.ehdr.e_shstrndx >= file.ehdr.e_shnum

\* C28: empty names are indexed for sections and not for symbols:
\* getSymbolByName("") returns not-found on every object, also when symbols
\* with an empty name exist; getSectionByName(n), for the empty name as for
\* any other, returns the last section in on-disk order whose name is n, and
\* not-found when there is none.
C28_EmptyNames ==
    /\ (Ready /\ ret.op = "getSymbolByName" /\ ret.arg = << >>) => ret.val = NotFound
    /\ (Ready /\ ret.op = "getSectionByName") =>
          LET named == {i \in SecIdx : _sections[i].name = ret.arg}
          IN  ret.val = IF named = {} THEN NotFound ELSE Highest(named)

\* getSectionByName("") answers with the last of several sections of empty
\* name, on an object that also has a section with a name.
C28_Witness ==
    /\ Ready /\ _valid
    /\ ret.op = "getSectionByName" /\ ret.arg = << >> /\ ret.val # NotFound
    /\ Cardinality({i \in SecIdx : _sections[i].name = << >>}) >= 2
    /\ \E i \in SecIdx : _sections[i].name # << >>

\* getSymbolByName("") answers not-found although a symbol of empty name exists.
C28_WitnessSymbol ==
    /\ Ready /\ _valid /\ AllReadsInFull
    /\ ret.op = "getSymbolByName" /\ ret.arg = << >> /\ ret.val = NotFound
    /\ \E i \in SymIdx : _symbols[i].name = << >>

\* C29: containment is evaluated in the arithmetic of an address, where the
\* end address + size of a range wraps around: a symbol or section whose
\* address + size passes the highest address is returned by
\* getSymbolByAddress and getSectionByAddress for no address, and an entity
\* e returned for addr has e.address <= addr < e.address + e.size with no
\* overflow in the sum.
C29_WrapAroundContainment ==
    /\ (Ready /\ ret.op = "getSymbolByAddress" /\ ret.val # NotFound) =>
          /\ NoWrap(_symbols[ret.val])
          /\ _symbols[ret.val].address <= ret.arg
          /\ ret.arg < _symbols[ret.val].address + _symbols[ret.val].size
    /\ (Ready /\ ret.op = "getSectionByAddress" /\ ret.val # NotFound) =>
          /\ NoWrap(_sections[ret.val])
          /\ _sections[ret.val].address <= ret.arg
          /\ ret.arg < _sections[ret.val].address + _sections[ret.val].size

\* A query for the highest address, at which a symbol whose end wraps around
\* starts, that finds nothing.
C29_Witness ==
    /\ Ready /\ _valid /\ AllReadsInFull
    /\ ret.op = "getSymbolByAddress" /\ ret.arg = AddrSpace - 1 /\ ret.val = NotFound
    /\ \E i \in SymIdx : _symbols[i].address = AddrSpace - 1 /\ ~NoWrap(_symbols[i])

\* A query inside the wrapped part of a section whose end wraps around that
\* finds nothing.
C29_WitnessSection ==
    /\ Ready /\ _valid
    /\ ret.op = "getSectionByAddress" /\ ret.arg = 0 /\ ret.val = NotFound
    /\ \E i \in SecIdx : ~NoWrap(_sections[i])

\* The metadata fields of a raw header.
MetaOf(eh) ==
    [type |-> eh.e_type, machine |-> eh.e_machine, version |-> eh.e_version,
     entry |-> eh.e_entry, flags |-> eh.e_flags]

\* C30: enableUnsafeAccess() changes the results of isValid() and
\* getMetadata() only.  The flag, once set, stays set, and a second call
\* changes nothing; a call leaves the parsed data, the error, the stage, the
\* lookup index and the report of getValidationLog() as they were.  On a
\* failed object after the call isValid() is true, getValidationLog() still
\* reports 'Valid: no' with the error and the failure stage, and
\* getMetadata() returns the stored header fields: all zero, unless the
\* parse failed at stage ProgramHeaders, where they are those of the file.
C30_UnsafeAccessFrame ==
    /\ [][_unsafeAccessEnabled => _unsafeAccessEnabled']_vars
    /\ [][ret'.op = "enableUnsafeAccess" =>
            /\ _unsafeAccessEnabled'
            /\ parsedVars' = parsedVars
            /\ lookupVars' = lookupVars
            /\ getValidationLog' = getValidationLog
            /\ (_unsafeAccessEnabled => isValid' = isValid /\ getMetadata' = getMetadata)]_vars
    /\ []((Ready /\ ~_valid /\ _unsafeAccessEnabled) =>
            /\ isValid
            /\ getValidationLog.valid = "no"
            /\ getValidationLog.error = _lastError /\ _lastError # ""
            /\ getValidationLog.stage = _failureStage
            /\ getMetadata = MetaOf(_elfHeader)
            /\ getMetadata = IF _failureStage = StageProgramHeaders THEN MetaOf(file.ehdr)
                              ELSE ZeroMeta)

\* getMetadata() on an object that failed at stage ProgramHeaders, after
\* enableUnsafeAccess(), returns the header fields of the file.
C30_Witness ==
    /\ Ready /\ ~_valid /\ _unsafeAccessEnabled
    /\ _failureStage = StageProgramHeaders
    /\ ret.op = "getMetadata" /\ ret.val = MetaOf(file.ehdr) /\ ret.val # ZeroMeta

\* getMetadata() on an object that failed before the header was stored,
\* after enableUnsafeAccess(), returns zeros.
C30_WitnessZero ==
    /\ Ready /\ ~_valid /\ _unsafeAccessEnabled
    /\ _failureStage = StageSectionHeaders
    /\ ret.op = "getMetadata" /\ ret.val = ZeroMeta

====
